---- MODULE Spec2Model ----
(***************************************************************************)
(* Weather dashboard: the HTTP fetch adapters (NWS, Open-Meteo,            *)
(* RainViewer), the radar normalizers and the chart builders.              *)
(*                                                                         *)
(* Python values are tagged records, so that values of different Python   *)
(* types can be compared: None, str, int, list and dict.  A call's outcome *)
(* is either a returned value or a raised exception.                       *)
(***************************************************************************)
EXTENDS Integers, Sequences, FiniteSets, TLC

VARIABLES
    task,         \* the running invocations of the fetch entry points
    upstream,     \* what the services answer
    payload,      \* the radar payload handed to the normalizers
    radar_call,   \* the latest normalizer call and its outcome
    chart_in,     \* the two forecasts handed to the chart builders
    chart_call,   \* the latest chart builder call and its outcome
    map_in,       \* the alerts and state code handed to create_alerts_map
    map_call,     \* the latest map builder call and its outcome
    session,      \* st.session_state
    ui_last       \* the latest button handler and what its fetch gave

vars ==
    <<task, upstream, payload, radar_call, chart_in, chart_call, map_in, map_call,
      session, ui_last>>

\* what the steps of one part of the program leave alone
FetchRest ==
    <<upstream, payload, radar_call, chart_in, chart_call, map_in, map_call,
      session, ui_last>>

RadarRest ==
    <<task, upstream, payload, chart_in, chart_call, map_in, map_call, session,
      ui_last>>

ChartRest ==
    <<task, upstream, payload, radar_call, chart_in, map_in, map_call, session,
      ui_last>>

MapRest ==
    <<task, upstream, payload, radar_call, chart_in, chart_call, map_in, session,
      ui_last>>

UiRest ==
    <<task, upstream, payload, radar_call, chart_in, chart_call, map_in, map_call>>

----------------------------------------------------------------------------
(* Python values and outcomes *)

None == [t |-> "None"]

Str(s) == [t |-> "str", v |-> s]

Num(n) == [t |-> "int", v |-> n]

List(s) == [t |-> "list", v |-> s]

Dict(f) == [t |-> "dict", v |-> f]

EmptyDict == Dict(<<>>)

EmptyList == List(<<>>)

\* a local that has not been assigned yet
Unset == [t |-> "unset"]

Return(v) == [kind |-> "return", val |-> v]

Raise(e) == [kind |-> "raise", exc |-> e]

\* bool(v)
Truthy(v) ==
    CASE v.t = "None" -> FALSE
      [] v.t = "str" -> v.v # ""
      [] v.t = "int" -> v.v # 0
      [] v.t = "list" -> Len(v.v) > 0
      [] v.t = "dict" -> DOMAIN v.v # {}

\* v[k] for a string key k
GetItem(v, k) ==
    IF v.t = "dict"
    THEN IF k \in DOMAIN v.v THEN Return(v.v[k]) ELSE Raise("KeyError")
    ELSE Raise("TypeError")

\* k in v for a string key k
Contains(v, k) ==
    CASE v.t = "dict" -> Return(k \in DOMAIN v.v)
      [] v.t = "list" -> Return(\E i \in 1..Len(v.v) : v.v[i] = Str(k))
      [] v.t = "str" -> Return(FALSE)
      [] OTHER -> Raise("TypeError")

----------------------------------------------------------------------------
(* Upstream services *)

NWS_API_BASE == "https://api.weather.gov"

OPEN_METEO_BASE == "https://api.open-meteo.com/v1/forecast"

RAINVIEWER_API == "https://api.rainviewer.com/public/weather-maps.json"

\* How one GET can end: client.get raises (transport error, timeout),
\* raise_for_status raises (non-2xx), response.json() raises (undecodable
\* body), or the body decodes to a value.
FailureKinds == {"transport_error", "timeout", "http_error", "bad_body"}

Failed(k) == [kind |-> k]

Ok(body) == [kind |-> "ok", body |-> body]

GridForecastUrl == "https://api.weather.gov/gridpoints/OKX/33,35/forecast"

Period1 == Dict([name |-> Str("Tonight"), temperature |-> Num(50)])

PointsBodies ==
    { None,
      EmptyDict,
      Dict([title |-> Str("Data Unavailable For Requested Point")]),
      Dict([properties |-> EmptyDict]),
      Dict([properties |-> Dict([forecast |-> None])]),
      Dict([properties |-> Dict([forecast |-> Str(GridForecastUrl)])]) }

ForecastBodies ==
    { EmptyDict,
      Dict([title |-> Str("Unexpected Problem")]),
      Dict([properties |-> EmptyDict]),
      Dict([properties |-> Dict([periods |-> EmptyList])]),
      Dict([properties |-> Dict([periods |-> List(<<Period1>>)])]) }

Alert1 == Dict([properties |-> Dict([severity |-> Str("Extreme")])])

Alert2 == Dict([properties |-> Dict([severity |-> Str("Minor")])])

AlertsBodies ==
    { EmptyDict,
      Dict([title |-> Str("Not Found")]),
      Dict([features |-> EmptyList]),
      Dict([features |-> List(<<Alert1, Alert2>>)]),
      Dict([features |-> List(<<Alert2, Alert1>>)]) }

Hours2 == List(<<Str("T00"), Str("T01")>>)

\* the variables fetch_model_forecast asks for when it is given none
DefaultVariables ==
    {"temperature_2m", "relative_humidity_2m", "precipitation", "wind_speed_10m",
     "wind_direction_10m", "weather_code"}

\* an hourly object with the timestamps and, for every requested variable,
\* the value sequence vals
Hourly(vals) ==
    Dict([k \in DefaultVariables \cup {"time"} |->
             IF k = "time" THEN Hours2 ELSE vals])

\* bodies Open-Meteo can answer with: an empty or an error object, a forecast whose
\* value sequences are as long as hourly.time, and one whose are shorter
ModelBodies ==
    { EmptyDict,
      Dict([error |-> Str("true")]),
      Dict([hourly |-> Hourly(List(<<Num(10), Num(11)>>))]),
      Dict([hourly |-> Hourly(List(<<Num(12)>>))]) }

RadarBodies ==
    { EmptyDict,
      Dict([radar |-> None]),
      Dict([radar |-> Dict([past |-> List(<<Dict([time |-> Num(300)])>>)])]),
      Dict([host |-> Str("https://h"),
            radar |-> Dict([past |-> List(<<Dict([time |-> Num(100),
                                                  path |-> Str("/a")])>>)])]) }

BodiesOf(stage) ==
    CASE stage = "points" -> PointsBodies
      [] stage = "forecast" -> ForecastBodies
      [] stage = "alerts" -> AlertsBodies
      [] stage \in {"gfs", "ecmwf", "model"} -> ModelBodies
      [] stage = "radar" -> RadarBodies

Responses(stage) ==
    {Failed(k) : k \in FailureKinds} \cup {Ok(b) : b \in BodiesOf(stage)}

----------------------------------------------------------------------------
(* The single-request adapters *)

\* the try block of an adapter: client.get(...), raise_for_status(), json()
TryGet(resp) ==
    CASE resp.kind = "invalid_url" -> Raise("TypeError")
      [] resp.kind = "transport_error" -> Raise("ConnectError")
      [] resp.kind = "timeout" -> Raise("ReadTimeout")
      [] resp.kind = "http_error" -> Raise("HTTPStatusError")
      [] resp.kind = "bad_body" -> Raise("JSONDecodeError")
      [] resp.kind = "ok" -> Return(resp.body)

\* the exception classes that "except Exception" catches
ExceptionSubclasses ==
    {"TypeError", "KeyError", "ConnectError", "ReadTimeout", "HTTPStatusError",
     "JSONDecodeError"}

\* try: ... except Exception: return None
ExceptReturnNone(r) ==
    IF r.kind = "raise" /\ r.exc \in ExceptionSubclasses THEN Return(None) ELSE r

\* as if the handler were "except httpx.HTTPError"
make_nws_request_httpx_only(resp) ==
    IF TryGet(resp).kind = "raise"
       /\ TryGet(resp).exc \in {"ConnectError", "ReadTimeout", "HTTPStatusError"}
    THEN Return(None)
    ELSE TryGet(resp)

make_nws_request(resp) == ExceptReturnNone(TryGet(resp))

fetch_model_forecast(resp) == ExceptReturnNone(TryGet(resp))

fetch_radar_timestamps(resp) == ExceptReturnNone(TryGet(resp))

NwsStages == {"points", "forecast", "alerts"}

ModelStages == {"gfs", "ecmwf", "model"}

Adapter(stage, resp) ==
    CASE stage \in NwsStages -> make_nws_request(resp)
      [] stage \in ModelStages -> fetch_model_forecast(resp)
      [] stage = "radar" -> fetch_radar_timestamps(resp)

----------------------------------------------------------------------------
(* The callers: what each does with the value its request returned *)

Call(url) == [kind |-> "call", url |-> url]

\* as if the test were "if not data or not data.get('features')"
fetch_alerts_falsy_features(data) ==
    IF ~Truthy(data)
    THEN Return(None)
    ELSE LET c == Contains(data, "features")
         IN  IF c.kind = "raise" THEN c
             ELSE IF ~c.val THEN Return(None)
             ELSE IF ~Truthy(data.v["features"]) THEN Return(None)
             ELSE GetItem(data, "features")

fetch_alerts(data) ==
    IF ~Truthy(data)
    THEN Return(None)
    ELSE LET c == Contains(data, "features")
         IN  IF c.kind = "raise" THEN c
             ELSE IF ~c.val THEN Return(None)
             ELSE GetItem(data, "features")

\* as if "if not points_data: return None" were missing
fetch_forecast_points_unchecked(points_data) ==
    LET p == GetItem(points_data, "properties")
    IN  IF p.kind = "raise" THEN p
        ELSE LET u == GetItem(p.val, "forecast")
             IN  IF u.kind = "raise" THEN u ELSE Call(u.val)

\* fetch_forecast after the points lookup: return, raise, or the next request
fetch_forecast_points(points_data) ==
    IF ~Truthy(points_data)
    THEN Return(None)
    ELSE LET p == GetItem(points_data, "properties")
         IN  IF p.kind = "raise" THEN p
             ELSE LET u == GetItem(p.val, "forecast")
                  IN  IF u.kind = "raise" THEN u ELSE Call(u.val)

\* fetch_forecast after the forecast request
fetch_forecast_periods(forecast_data) ==
    IF ~Truthy(forecast_data)
    THEN Return(None)
    ELSE LET p == GetItem(forecast_data, "properties")
         IN  IF p.kind = "raise" THEN p ELSE GetItem(p.val, "periods")

\* as if a missing GFS forecast made the whole comparison fail
fetch_multi_model_comparison_all_or_none(gfs_data, ecmwf_data) ==
    IF gfs_data = None
    THEN Return(Dict([gfs |-> None, ecmwf |-> None]))
    ELSE Return(Dict([gfs |-> gfs_data, ecmwf |-> ecmwf_data]))

fetch_multi_model_comparison(gfs_data, ecmwf_data) ==
    Return(Dict([gfs |-> gfs_data, ecmwf |-> ecmwf_data]))

----------------------------------------------------------------------------
(* Adapter invocations as tasks *)

Tasks == {"t1", "t2"}

Ops ==
    {"fetch_forecast", "fetch_alerts", "fetch_multi_model_comparison",
     "fetch_model_forecast", "fetch_radar_timestamps"}

Coords == {"40.7128,-74.006"}

States == {"CA", "NY"}

Models == {"gfs_seamless", "ecmwf_ifs"}

Args(o) ==
    CASE o = "fetch_forecast" -> Coords
      [] o = "fetch_alerts" -> States
      [] o = "fetch_multi_model_comparison" -> Coords
      [] o = "fetch_model_forecast" -> Models
      [] o = "fetch_radar_timestamps" -> {""}

FirstStage(o) ==
    CASE o = "fetch_forecast" -> "points"
      [] o = "fetch_alerts" -> "alerts"
      [] o = "fetch_multi_model_comparison" -> "gfs"
      [] o = "fetch_model_forecast" -> "model"
      [] o = "fetch_radar_timestamps" -> "radar"

FirstUrl(o, a) ==
    CASE o = "fetch_forecast" -> Str(NWS_API_BASE \o "/points/" \o a)
      [] o = "fetch_alerts" -> Str(NWS_API_BASE \o "/alerts/active/area/" \o a)
      [] o = "fetch_multi_model_comparison" -> Str(OPEN_METEO_BASE)
      [] o = "fetch_model_forecast" -> Str(OPEN_METEO_BASE)
      [] o = "fetch_radar_timestamps" -> Str(RAINVIEWER_API)

FirstParams(o, a) ==
    CASE o = "fetch_multi_model_comparison" -> "gfs_seamless"
      [] o = "fetch_model_forecast" -> a
      [] OTHER -> ""

Idle ==
    [op |-> "idle", arg |-> "", pc |-> "idle", stage |-> "idle", url |-> Unset,
     params |-> "", ret |-> Unset, first |-> Unset, result |-> Unset,
     reqs |-> <<>>, resps |-> <<>>, clients |-> <<>>]

Done(s, r) == [s EXCEPT !.pc = "done", !.result = r]

\* the caller's code from the return of its request to its next request or
\* its own return
Continue(s) ==
    IF s.ret.kind = "raise" THEN Done(s, s.ret)
    ELSE CASE s.stage \in {"model", "radar"} -> Done(s, s.ret)
           [] s.stage = "alerts" -> Done(s, fetch_alerts(s.ret.val))
           [] s.stage = "points" ->
                LET n == fetch_forecast_points(s.ret.val)
                    s1 == [s EXCEPT !.first = s.ret.val]
                IN  IF n.kind = "call"
                    THEN [s1 EXCEPT !.stage = "forecast", !.url = n.url,
                                    !.pc = "call"]
                    ELSE Done(s1, n)
           [] s.stage = "forecast" -> Done(s, fetch_forecast_periods(s.ret.val))
           [] s.stage = "gfs" ->
                [s EXCEPT !.first = s.ret.val, !.stage = "ecmwf",
                          !.params = "ecmwf_ifs", !.pc = "call"]
           [] s.stage = "ecmwf" ->
                Done(s, fetch_multi_model_comparison(s.first, s.ret.val))

\* a user action starts an invocation
Start(t, o, a) ==
    /\ task[t].pc = "idle"
    /\ task' = [task EXCEPT ![t] =
                   [Idle EXCEPT !.op = o, !.arg = a, !.pc = "call",
                                !.stage = FirstStage(o),
                                !.url = FirstUrl(o, a),
                                !.params = FirstParams(o, a)]]

\* async with httpx.AsyncClient() as client
Open(t) ==
    /\ task[t].pc = "call"
    /\ task' = [task EXCEPT ![t].pc = "opened",
                            ![t].clients = Append(@, "open")]

\* client.get(url, ...): the request goes out, unless the URL is no URL
Send(t) ==
    /\ task[t].pc = "opened"
    /\ IF task[t].url.t = "str"
       THEN task' = [task EXCEPT ![t].pc = "sent",
                        ![t].reqs = Append(@, [url |-> task[t].url,
                                               params |-> task[t].params,
                                               client |-> Len(task[t].clients)])]
       ELSE task' = [task EXCEPT ![t].pc = "got",
                        ![t].resps = Append(@, Failed("invalid_url")),
                        ![t].ret = Adapter(task[t].stage, Failed("invalid_url"))]

\* what a service is asked: the URL and the query
Endpoint(url, params) == url.v \o "?" \o params

\* a variant in which the tasks share one connection: a reply meant for
\* another task's outstanding request is delivered to this one
Answers_shared_connection(t) ==
    LET others == {u \in Tasks \ {t} : task[u].pc = "sent"}
    IN  IF upstream.mode = "fixed" /\ others # {}
        THEN {upstream.by[Endpoint(task[u].url, task[u].params)] : u \in others}
        ELSE Responses(task[t].stage)

\* the ways the request of task t can end
Answers(t) ==
    IF upstream.mode = "fixed"
    THEN {upstream.by[Endpoint(task[t].url, task[t].params)]}
    ELSE Responses(task[t].stage)

\* the request ends; the adapter's try/except decides what it returns
Recv(t) ==
    /\ task[t].pc = "sent"
    /\ \E resp \in Answers(t) :
           task' = [task EXCEPT ![t].pc = "got", ![t].resps = Append(@, resp),
                                ![t].ret = Adapter(task[t].stage, resp)]

\* a variant that tries a failed request a second time
Close_retries_once(t) ==
    /\ task[t].pc = "got"
    /\ LET s == task[t]
           n == Len(s.clients)
           closed == [s EXCEPT !.clients[n] = "closed"]
       IN  task' = [task EXCEPT ![t] =
                       IF s.resps[Len(s.resps)].kind # "ok" /\ n < 2
                       THEN [closed EXCEPT !.pc = "call"]
                       ELSE Continue(closed)]

\* a variant that releases the client only after a successful request
Close_leaks_on_error(t) ==
    /\ task[t].pc = "got"
    /\ LET s == task[t]
           n == Len(s.clients)
       IN  task' = [task EXCEPT ![t] =
                       Continue(IF s.resps[Len(s.resps)].kind = "ok"
                                THEN [s EXCEPT !.clients[n] = "closed"]
                                ELSE s)]

\* the async with block exits, the adapter returns and its caller goes on
Close(t) ==
    /\ task[t].pc = "got"
    /\ LET s == task[t]
           n == Len(s.clients)
       IN  task' = [task EXCEPT ![t] =
                       Continue([s EXCEPT !.clients[n] = "closed"])]

\* the invocation's result has been consumed
Finish(t) ==
    /\ task[t].pc = "done"
    /\ task' = [task EXCEPT ![t] = Idle]

NoRadar == [fn |-> "none"]

NoChart == [fn |-> "none"]

NoMap == [fn |-> "none"]

NoHandler == [action |-> "none"]

\* st.session_state before any fetch has stored a result
NoSession ==
    [forecast_data |-> Unset, gfs_data |-> Unset, ecmwf_data |-> Unset,
     radar_frames |-> Unset]

\* the services may answer each request in any way
AnyUpstream == [mode |-> "any"]

\* the parts of the program that a specification does not exercise
FetchQuiet == task = [t \in Tasks |-> Idle] /\ upstream = AnyUpstream

RadarQuiet == payload = EmptyDict /\ radar_call = NoRadar

ChartQuiet == chart_in = [gfs |-> None, ecmwf |-> None] /\ chart_call = NoChart

MapQuiet == map_in = [alerts |-> EmptyList, state_code |-> ""] /\ map_call = NoMap

UiQuiet == session = NoSession /\ ui_last = NoHandler

Init ==
    /\ task = [t \in Tasks |-> Idle]
    /\ upstream = AnyUpstream
    /\ RadarQuiet
    /\ ChartQuiet
    /\ MapQuiet
    /\ UiQuiet

Next ==
    \E t \in Tasks :
        \/ \E o \in Ops : \E a \in Args(o) : Start(t, o, a) /\ UNCHANGED FetchRest
        \/ Open(t) /\ UNCHANGED FetchRest
        \/ Send(t) /\ UNCHANGED FetchRest
        \/ Recv(t) /\ UNCHANGED FetchRest
        \/ Close(t) /\ UNCHANGED FetchRest
        \/ Finish(t) /\ UNCHANGED FetchRest

Spec == Init /\ [][Next]_vars

\* The same program against services whose answer to each endpoint is fixed:
\* either the request times out or it is answered with the service's usual
\* body.
ServiceCalls ==
    UNION {{[url |-> FirstUrl(o, a), params |-> FirstParams(o, a),
             stage |-> FirstStage(o)] : a \in Args(o)} : o \in Ops}
    \cup {[url |-> Str(GridForecastUrl), params |-> "", stage |-> "forecast"]}

Endpoints == {Endpoint(c.url, c.params) : c \in ServiceCalls}

CallOf(e) == CHOOSE c \in ServiceCalls : Endpoint(c.url, c.params) = e

UsualBody(c) ==
    CASE c.stage = "points" ->
             Dict([properties |-> Dict([forecast |-> Str(GridForecastUrl)])])
      [] c.stage = "forecast" ->
             Dict([properties |-> Dict([periods |-> List(<<Period1>>)])])
      [] c.stage = "alerts" -> Dict([features |-> List(<<Alert1, Alert2>>)])
      [] c.stage \in {"gfs", "ecmwf", "model"} ->
             IF c.params = "ecmwf_ifs"
             THEN Dict([hourly |-> Hourly(List(<<Num(12)>>))])
             ELSE Dict([hourly |-> Hourly(List(<<Num(10), Num(11)>>))])
      [] c.stage = "radar" ->
             Dict([host |-> Str("https://h"),
                   radar |-> Dict([past |-> List(<<Dict([time |-> Num(100),
                                                         path |-> Str("/a")])>>)])])

FixedUpstreams ==
    {[mode |-> "fixed",
      by |-> [e \in Endpoints |->
                 IF up[e] THEN Ok(UsualBody(CallOf(e))) ELSE Failed("timeout")]] :
        up \in [Endpoints -> BOOLEAN]}

InitFixed ==
    /\ task = [t \in Tasks |-> Idle]
    /\ upstream \in FixedUpstreams
    /\ RadarQuiet
    /\ ChartQuiet
    /\ MapQuiet
    /\ UiQuiet

SpecFixed == InitFixed /\ [][Next]_vars
----------------------------------------------------------------------------
(* The radar normalizers (RainViewer) *)

\* d.get(k, default)
DictGet(d, k, default) ==
    IF d.t = "dict"
    THEN Return(IF k \in DOMAIN d.v THEN d.v[k] ELSE default)
    ELSE Raise("AttributeError")

\* xs[i] for an integer i: negative i counts from the end
GetIndex(xs, i) ==
    CASE xs.t = "list" ->
            IF 0 <= i /\ i < Len(xs.v) THEN Return(xs.v[i + 1])
            ELSE IF i < 0 /\ 0 - i <= Len(xs.v) THEN Return(xs.v[Len(xs.v) + i + 1])
            ELSE Raise("IndexError")
      [] xs.t = "dict" -> Raise("KeyError")
      [] OTHER -> Raise("TypeError")

\* str(v), as an f-string field formats it
PyStr(v) ==
    CASE v.t = "str" -> v.v
      [] v.t = "int" -> ToString(v.v)
      [] v.t = "None" -> "None"

DefaultHost == "https://tilecache.rainviewer.com"

\* f"{host}{path}/256/{{z}}/{{x}}/{{y}}/2/1_1.png"
TileUrl(host, path) == Str(PyStr(host) \o PyStr(path) \o "/256/{z}/{x}/{y}/2/1_1.png")

\* radar_data.get("radar", {}).get("past", [])
RadarFrames(radar_data) ==
    LET r == DictGet(radar_data, "radar", EmptyDict)
    IN  IF r.kind = "raise" THEN r ELSE DictGet(r.val, "past", EmptyList)

DefaultFrameIndex == -1

\* the try block of get_radar_tile_url
TileUrlBody(radar_data, frame_index) ==
    LET fs == RadarFrames(radar_data)
    IN  IF fs.kind = "raise" THEN fs
        ELSE IF ~Truthy(fs.val) THEN Return(None)
        ELSE LET frame == GetIndex(fs.val, frame_index)
             IN  IF frame.kind = "raise" THEN frame
                 ELSE LET path == GetItem(frame.val, "path")
                          host == DictGet(radar_data, "host", Str(DefaultHost))
                      IN  IF path.kind = "raise" THEN path
                          ELSE IF host.kind = "raise" THEN host
                          ELSE Return(TileUrl(host.val, path.val))

\* as if the index were taken from the front of the list whatever its sign
get_radar_tile_url_oldest(radar_data, frame_index) ==
    LET r == TileUrlBody(radar_data, IF frame_index < 0 THEN 0 ELSE frame_index)
    IN  IF r.kind = "raise" /\ r.exc \in {"KeyError", "IndexError"}
        THEN Return(None)
        ELSE r

get_radar_tile_url(radar_data, frame_index) ==
    LET r == TileUrlBody(radar_data, frame_index)
    IN  IF r.kind = "raise" /\ r.exc \in {"KeyError", "IndexError"}
        THEN Return(None)
        ELSE r

\* the frames list after the loop has handled entries i.. of radar_frames,
\* and the exception that ended the loop ("none" when it ran to the end)
RECURSIVE FramesLoop(_, _, _, _)
FramesLoop(host, radar_frames, i, frames) ==
    IF i > Len(radar_frames)
    THEN [frames |-> frames, exc |-> "none"]
    ELSE LET path == GetItem(radar_frames[i], "path")
             time == GetItem(radar_frames[i], "time")
         IN  IF path.kind = "raise" THEN [frames |-> frames, exc |-> path.exc]
             ELSE IF time.kind = "raise" THEN [frames |-> frames, exc |-> time.exc]
             ELSE FramesLoop(host, radar_frames, i + 1,
                             Append(frames, Dict([time |-> time.val,
                                                  url |-> TileUrl(host, path.val)])))

\* as if each frame were put in front of the list
RECURSIVE FramesLoopNewestFirst(_, _, _, _)
FramesLoopNewestFirst(host, radar_frames, i, frames) ==
    IF i > Len(radar_frames)
    THEN [frames |-> frames, exc |-> "none"]
    ELSE LET path == GetItem(radar_frames[i], "path")
             time == GetItem(radar_frames[i], "time")
         IN  IF path.kind = "raise" THEN [frames |-> frames, exc |-> path.exc]
             ELSE IF time.kind = "raise" THEN [frames |-> frames, exc |-> time.exc]
             ELSE FramesLoopNewestFirst(host, radar_frames, i + 1,
                             <<Dict([time |-> time.val,
                                     url |-> TileUrl(host, path.val)])>> \o frames)

\* the try block of get_all_radar_frames
AllFramesBody(radar_data) ==
    LET host == DictGet(radar_data, "host", Str(DefaultHost))
        fs == RadarFrames(radar_data)
    IN  IF host.kind = "raise" THEN [frames |-> <<>>, exc |-> host.exc]
        ELSE IF fs.kind = "raise" THEN [frames |-> <<>>, exc |-> fs.exc]
        ELSE IF fs.val.t = "list" THEN FramesLoop(host.val, fs.val.v, 1, <<>>)
        ELSE IF fs.val.t = "dict" /\ fs.val.v = <<>> THEN [frames |-> <<>>, exc |-> "none"]
        ELSE [frames |-> <<>>, exc |-> "TypeError"]

\* as if get_all_radar_frames built its list newest first
get_all_radar_frames_newest_first(radar_data) ==
    LET host == DictGet(radar_data, "host", Str(DefaultHost))
        fs == RadarFrames(radar_data)
        b == IF host.kind = "return" /\ fs.kind = "return" /\ fs.val.t = "list"
             THEN FramesLoopNewestFirst(host.val, fs.val.v, 1, <<>>)
             ELSE AllFramesBody(radar_data)
    IN  IF b.exc \in {"none", "KeyError", "TypeError"}
        THEN Return(List(b.frames))
        ELSE Raise(b.exc)

get_all_radar_frames(radar_data) ==
    LET b == AllFramesBody(radar_data)
    IN  IF b.exc \in {"none", "KeyError", "TypeError"}
        THEN Return(List(b.frames))
        ELSE Raise(b.exc)

\* a key that the object does not have
Missing == [t |-> "missing"]

\* the dict with the fields of f that are not Missing
MkDict(f) == Dict([k \in {x \in DOMAIN f : f[x] # Missing} |-> f[k]])

MaxFrames == 3

RECURSIVE SeqsUpTo(_, _)
SeqsUpTo(S, n) ==
    IF n = 0 THEN {<<>>}
    ELSE LET shorter == SeqsUpTo(S, n - 1)
         IN  shorter \cup {Append(q, x) : q \in shorter, x \in S}

\* entries of radar.past: well-formed, without time, without path, null
FrameShapes ==
    { Dict([time |-> Num(100), path |-> Str("/v2/radar/a")]),
      Dict([time |-> Num(200), path |-> Str("/v2/radar/b")]),
      Dict([path |-> Str("/v2/radar/c")]),
      Dict([time |-> Num(300)]),
      None }

PastShapes == {Missing, None} \cup {List(q) : q \in SeqsUpTo(FrameShapes, MaxFrames)}

RadarShapes == {Missing, None} \cup {MkDict([past |-> p]) : p \in PastShapes}

HostShapes == {Missing, Str("https://cdn.example")}

RadarPayloads == {MkDict([host |-> h, radar |-> r]) : h \in HostShapes, r \in RadarShapes}

FrameIndexes == (0 - MaxFrames - 1) .. (MaxFrames + 1)

CallTileUrl(i) ==
    /\ radar_call' = [fn |-> "get_radar_tile_url", idx |-> i, given |-> TRUE,
                      out |-> get_radar_tile_url(payload, i)]
    /\ UNCHANGED RadarRest

\* get_radar_tile_url(radar_data): frame_index takes its default
CallTileUrlDefault ==
    /\ radar_call' = [fn |-> "get_radar_tile_url", idx |-> DefaultFrameIndex,
                      given |-> FALSE,
                      out |-> get_radar_tile_url(payload, DefaultFrameIndex)]
    /\ UNCHANGED RadarRest

CallAllFrames ==
    /\ radar_call' = [fn |-> "get_all_radar_frames",
                      out |-> get_all_radar_frames(payload)]
    /\ UNCHANGED RadarRest

InitRadar ==
    /\ payload \in RadarPayloads
    /\ radar_call = NoRadar
    /\ FetchQuiet
    /\ ChartQuiet
    /\ MapQuiet
    /\ UiQuiet

NextRadar ==
    \/ \E i \in FrameIndexes : CallTileUrl(i)
    \/ CallTileUrlDefault
    \/ CallAllFrames

SpecRadar == InitRadar /\ [][NextRadar]_vars

----------------------------------------------------------------------------
(* The chart builders *)

\* a trace placed on the figure itself (no subplot cell)
NoCell == <<>>

\* if data and "hourly" in data:
\*     fig.add_trace(go.<type>(x=data["hourly"]["time"], y=data["hourly"][var],
\*                             name=name, ...), row, col)
\* fig is the outcome so far: the traces of the figure, or a raised exception
AddModelTrace(fig, data, type, name, var, cell) ==
    IF fig.kind = "raise" \/ ~Truthy(data) THEN fig
    ELSE LET c == Contains(data, "hourly")
         IN  IF c.kind = "raise" THEN c
             ELSE IF ~c.val THEN fig
             ELSE LET hx == GetItem(data, "hourly")
                      x == IF hx.kind = "raise" THEN hx ELSE GetItem(hx.val, "time")
                      y == IF hx.kind = "raise" THEN hx ELSE GetItem(hx.val, var)
                  IN  IF x.kind = "raise" THEN x
                      ELSE IF y.kind = "raise" THEN y
                      ELSE Return(Append(fig.val,
                                         [type |-> type, name |-> name, x |-> x.val,
                                          y |-> y.val, cell |-> cell]))

\* fig.update_layout(title=...); return fig
Figure(traces, title) ==
    IF traces.kind = "raise" THEN traces
    ELSE Return([data |-> traces.val, title |-> title])

create_temperature_comparison_chart(gfs_data, ecmwf_data) ==
    LET f0 == Return(<<>>)
        f1 == AddModelTrace(f0, gfs_data, "scatter", "GFS", "temperature_2m", NoCell)
        f2 == AddModelTrace(f1, ecmwf_data, "scatter", "ECMWF", "temperature_2m", NoCell)
    IN  Figure(f2, "Temperature Forecast Comparison (GFS vs ECMWF)")

\* as if the ECMWF block of the precipitation chart had been left out
create_precipitation_comparison_chart_gfs_only(gfs_data, ecmwf_data) ==
    LET f0 == Return(<<>>)
        f1 == AddModelTrace(f0, gfs_data, "bar", "GFS", "precipitation", NoCell)
    IN  Figure(f1, "Precipitation Forecast Comparison (GFS vs ECMWF)")

create_precipitation_comparison_chart(gfs_data, ecmwf_data) ==
    LET f0 == Return(<<>>)
        f1 == AddModelTrace(f0, gfs_data, "bar", "GFS", "precipitation", NoCell)
        f2 == AddModelTrace(f1, ecmwf_data, "bar", "ECMWF", "precipitation", NoCell)
    IN  Figure(f2, "Precipitation Forecast Comparison (GFS vs ECMWF)")

create_wind_comparison_chart(gfs_data, ecmwf_data) ==
    LET f0 == Return(<<>>)
        f1 == AddModelTrace(f0, gfs_data, "scatter", "GFS", "wind_speed_10m", NoCell)
        f2 == AddModelTrace(f1, ecmwf_data, "scatter", "ECMWF", "wind_speed_10m", NoCell)
    IN  Figure(f2, "Wind Speed Forecast Comparison (GFS vs ECMWF)")

create_multi_variable_dashboard(gfs_data, ecmwf_data) ==
    LET f0 == Return(<<>>)
        f1 == AddModelTrace(f0, gfs_data, "scatter", "GFS", "temperature_2m", <<1, 1>>)
        f2 == AddModelTrace(f1, ecmwf_data, "scatter", "ECMWF", "temperature_2m", <<1, 1>>)
        f3 == AddModelTrace(f2, gfs_data, "bar", "GFS Precip", "precipitation", <<1, 2>>)
        f4 == AddModelTrace(f3, ecmwf_data, "bar", "ECMWF Precip", "precipitation", <<1, 2>>)
        f5 == AddModelTrace(f4, gfs_data, "scatter", "GFS Wind", "wind_speed_10m", <<2, 1>>)
        f6 == AddModelTrace(f5, ecmwf_data, "scatter", "ECMWF Wind", "wind_speed_10m", <<2, 1>>)
        f7 == AddModelTrace(f6, gfs_data, "scatter", "GFS Humidity", "relative_humidity_2m", <<2, 2>>)
        f8 == AddModelTrace(f7, ecmwf_data, "scatter", "ECMWF Humidity", "relative_humidity_2m", <<2, 2>>)
    IN  Figure(f8, "Weather Model Comparison Dashboard")

\* the hourly fields the charts read
ChartFields ==
    {"time", "temperature_2m", "precipitation", "wind_speed_10m", "relative_humidity_2m"}

\* the value sequence of a field in a model's response: each field and each
\* model has values of its own
Series(field, model) ==
    LET shift == IF model = "gfs" THEN 0 ELSE 2
    IN  CASE field = "time" -> Hours2
          [] field = "temperature_2m" -> List(<<Num(10 + shift), Num(11 + shift)>>)
          [] field = "precipitation" -> List(<<Num(0 + shift), Num(1 + shift)>>)
          [] field = "wind_speed_10m" -> List(<<Num(30 + shift), Num(31 + shift)>>)
          [] field = "relative_humidity_2m" -> List(<<Num(60 + shift), Num(61 + shift)>>)

\* responses a chart builder can be handed: absent, an empty object, an
\* object without hourly, hourly of the wrong type, and hourly with any
\* subset of the fields
ForecastShapes(model) ==
    {None, EmptyDict, Dict([error |-> Str("true")]), Dict([hourly |-> None])}
    \cup {Dict([hourly |-> Dict([k \in ks |-> Series(k, model)])]) : ks \in SUBSET ChartFields}

BuildTemperature ==
    /\ chart_call' = [fn |-> "create_temperature_comparison_chart",
                      out |-> create_temperature_comparison_chart(chart_in.gfs, chart_in.ecmwf)]
    /\ UNCHANGED ChartRest

BuildPrecipitation ==
    /\ chart_call' = [fn |-> "create_precipitation_comparison_chart",
                      out |-> create_precipitation_comparison_chart(chart_in.gfs, chart_in.ecmwf)]
    /\ UNCHANGED ChartRest

BuildWind ==
    /\ chart_call' = [fn |-> "create_wind_comparison_chart",
                      out |-> create_wind_comparison_chart(chart_in.gfs, chart_in.ecmwf)]
    /\ UNCHANGED ChartRest

BuildDashboard ==
    /\ chart_call' = [fn |-> "create_multi_variable_dashboard",
                      out |-> create_multi_variable_dashboard(chart_in.gfs, chart_in.ecmwf)]
    /\ UNCHANGED ChartRest

InitChart ==
    /\ chart_in \in [gfs : ForecastShapes("gfs"), ecmwf : ForecastShapes("ecmwf")]
    /\ chart_call = NoChart
    /\ FetchQuiet
    /\ RadarQuiet
    /\ MapQuiet
    /\ UiQuiet

NextChart ==
    \/ BuildTemperature
    \/ BuildPrecipitation
    \/ BuildWind
    \/ BuildDashboard

SpecChart == InitChart /\ [][NextChart]_vars

----------------------------------------------------------------------------
(* The alerts map *)

\* A folium.Map is its location and the elements added to it, in the order
\* of add_to; coordinates are kept as the decimal text of the source.
STATE_CENTERS ==
    "AL" :> <<"32.806671", "-86.791130">> @@ "AK" :> <<"61.370716", "-152.404419">> @@
    "AZ" :> <<"33.729759", "-111.431221">> @@ "AR" :> <<"34.969704", "-92.373123">> @@
    "CA" :> <<"36.116203", "-119.681564">> @@ "CO" :> <<"39.059811", "-105.311104">> @@
    "CT" :> <<"41.597782", "-72.755371">> @@ "DE" :> <<"39.318523", "-75.507141">> @@
    "FL" :> <<"27.766279", "-81.686783">> @@ "GA" :> <<"33.040619", "-83.643074">> @@
    "HI" :> <<"21.094318", "-157.498337">> @@ "ID" :> <<"44.240459", "-114.478828">> @@
    "IL" :> <<"40.349457", "-88.986137">> @@ "IN" :> <<"39.849426", "-86.258278">> @@
    "IA" :> <<"42.011539", "-93.210526">> @@ "KS" :> <<"38.526600", "-96.726486">> @@
    "KY" :> <<"37.668140", "-84.670067">> @@ "LA" :> <<"31.169546", "-91.867805">> @@
    "ME" :> <<"44.693947", "-69.381927">> @@ "MD" :> <<"39.063946", "-76.802101">> @@
    "MA" :> <<"42.230171", "-71.530106">> @@ "MI" :> <<"43.326618", "-84.536095">> @@
    "MN" :> <<"45.694454", "-93.900192">> @@ "MS" :> <<"32.741646", "-89.678696">> @@
    "MO" :> <<"38.456085", "-92.288368">> @@ "MT" :> <<"46.921925", "-110.454353">> @@
    "NE" :> <<"41.125370", "-98.268082">> @@ "NV" :> <<"38.313515", "-117.055374">> @@
    "NH" :> <<"43.452492", "-71.563896">> @@ "NJ" :> <<"40.298904", "-74.521011">> @@
    "NM" :> <<"34.840515", "-106.248482">> @@ "NY" :> <<"42.165726", "-74.948051">> @@
    "NC" :> <<"35.630066", "-79.806419">> @@ "ND" :> <<"47.528912", "-99.784012">> @@
    "OH" :> <<"40.388783", "-82.764915">> @@ "OK" :> <<"35.565342", "-96.928917">> @@
    "OR" :> <<"44.572021", "-122.070938">> @@ "PA" :> <<"40.590752", "-77.209755">> @@
    "RI" :> <<"41.680893", "-71.511780">> @@ "SC" :> <<"33.856892", "-80.945007">> @@
    "SD" :> <<"44.299782", "-99.438828">> @@ "TN" :> <<"35.747845", "-86.692345">> @@
    "TX" :> <<"31.054487", "-97.563461">> @@ "UT" :> <<"40.150032", "-111.862434">> @@
    "VT" :> <<"44.045876", "-72.710686">> @@ "VA" :> <<"37.769337", "-78.169968">> @@
    "WA" :> <<"47.400902", "-121.490494">> @@ "WV" :> <<"38.491226", "-80.954453">> @@
    "WI" :> <<"44.268543", "-89.616508">> @@ "WY" :> <<"42.755966", "-107.302490">>

DefaultCenter == <<"39.8283", "-98.5795">>

SEVERITY_COLORS ==
    "Extreme" :> "#FF0000" @@ "Severe" :> "#FF6600" @@ "Moderate" :> "#FFCC00" @@
    "Minor" :> "#00FF00" @@ "Unknown" :> "#808080"

\* a variant that colours every alert as Unknown
SeverityColor_always_unknown(severity) == SEVERITY_COLORS["Unknown"]

\* SEVERITY_COLORS.get(severity, "#808080")
SeverityColor(severity) ==
    IF severity.t = "str" /\ severity.v \in DOMAIN SEVERITY_COLORS
    THEN SEVERITY_COLORS[severity.v]
    ELSE "#808080"

\* the f-string of the popup
PopupHtml(event, severity, area) ==
    "<b>" \o PyStr(event) \o "</b><br><b>Severity:</b> " \o PyStr(severity)
        \o "<br><b>Area:</b> " \o PyStr(area)

\* geometry and geometry.get("type") in ["Polygon", "MultiPolygon"]
IsPolygonal(geometry) ==
    IF ~Truthy(geometry) THEN Return(FALSE)
    ELSE LET type == DictGet(geometry, "type", None)
         IN  IF type.kind = "raise" THEN type
             ELSE Return(type.val \in {Str("Polygon"), Str("MultiPolygon")})

\* one turn of the loop: the element that the alert adds to the map
AlertElement(alert, center) ==
    LET props == DictGet(alert, "properties", EmptyDict)
        geometry == DictGet(alert, "geometry", None)
    IN  IF props.kind = "raise" THEN props
        ELSE LET severity == DictGet(props.val, "severity", Str("Unknown"))
                 event == DictGet(props.val, "event", Str("Unknown Event"))
                 area == DictGet(props.val, "areaDesc", Str("Unknown Area"))
             IN  IF severity.kind = "raise" THEN severity
                 ELSE LET color == SeverityColor(severity.val)
                          popup == PopupHtml(event.val, severity.val, area.val)
                          shape == IsPolygonal(geometry.val)
                      IN  IF shape.kind = "raise" THEN shape
                          ELSE IF shape.val
                          THEN Return([kind |-> "GeoJson", data |-> geometry.val,
                                       fillColor |-> color, color |-> color,
                                       popup |-> popup])
                          ELSE Return([kind |-> "Marker", location |-> center,
                                       popup |-> popup])

RECURSIVE AlertsLoop(_, _, _)
AlertsLoop(alerts, center, m) ==
    IF alerts = <<>> THEN Return(m)
    ELSE LET element == AlertElement(Head(alerts), center)
         IN  IF element.kind = "raise" THEN element
             ELSE AlertsLoop(Tail(alerts), center,
                             [m EXCEPT !.children = Append(@, element.val)])

create_alerts_map(alerts, state_code) ==
    LET center == IF state_code \in DOMAIN STATE_CENTERS
                  THEN STATE_CENTERS[state_code]
                  ELSE DefaultCenter
    IN  AlertsLoop(alerts.v, center,
                   [location |-> center, tiles |-> "CartoDB positron",
                    children |-> <<>>])

\* the inputs of the map builder
MaxAlerts == 2

Geometry(type) == Dict([type |-> Str(type), coordinates |-> EmptyList])

Feature(properties, geometry) ==
    MkDict([type |-> Str("Feature"), properties |-> properties,
            geometry |-> geometry])

SeverityShapes ==
    {Str("Extreme"), Str("Severe"), Str("Moderate"), Str("Minor"), Str("Unknown"),
     Str("Catastrophic"), None, Missing}

AlertShapes ==
    {Feature(MkDict([severity |-> s, event |-> Str("Flood Warning")]),
             Geometry("Polygon")) : s \in SeverityShapes}
    \cup {Feature(Dict([severity |-> Str("Severe"), areaDesc |-> Str("Kern")]), g) :
            g \in {Geometry("MultiPolygon"), Geometry("Point"), None, Missing,
                   EmptyDict, Dict([coordinates |-> EmptyList])}}
    \cup {Feature(Missing, Geometry("Polygon")), Feature(None, Geometry("Polygon"))}

StateCodes == {"CA", "NY", "ZZ"}

BuildAlertsMap ==
    /\ map_call' = [fn |-> "create_alerts_map",
                    out |-> create_alerts_map(map_in.alerts, map_in.state_code)]
    /\ UNCHANGED MapRest

InitMap ==
    /\ map_in \in [alerts : {List(q) : q \in SeqsUpTo(AlertShapes, MaxAlerts)},
                   state_code : StateCodes]
    /\ map_call = NoMap
    /\ FetchQuiet
    /\ RadarQuiet
    /\ ChartQuiet
    /\ UiQuiet

NextMap == BuildAlertsMap

SpecMap == InitMap /\ [][NextMap]_vars

----------------------------------------------------------------------------
(* The button handlers of the dashboard *)

\* an invocation of entry point o with argument a, about to make its first
\* request
Invocation(o, a) ==
    [Idle EXCEPT !.op = o, !.arg = a, !.pc = "call", !.stage = FirstStage(o),
                 !.url = FirstUrl(o, a), !.params = FirstParams(o, a)]

\* asyncio.run(...): the invocation runs to its end, the request to endpoint
\* e ending as by[e]
RECURSIVE Complete(_, _)
Complete(s, by) ==
    LET resp == IF s.url.t = "str" THEN by[Endpoint(s.url, s.params)]
                ELSE Failed("invalid_url")
        r == Continue([s EXCEPT !.ret = Adapter(s.stage, resp)])
    IN  IF r.pc = "done" THEN r.result ELSE Complete(r, by)

\* the ways the requests of one button press can end
AnswersTo(calls) ==
    LET es == {Endpoint(c.url, c.params) : c \in calls}
    IN  {by \in [es -> UNION {Responses(c.stage) : c \in calls}] :
            \A c \in calls : by[Endpoint(c.url, c.params)] \in Responses(c.stage)}

ForecastCalls(a) ==
    {[url |-> FirstUrl("fetch_forecast", a), params |-> "", stage |-> "points"],
     [url |-> Str(GridForecastUrl), params |-> "", stage |-> "forecast"]}

ModelCalls ==
    {[url |-> Str(OPEN_METEO_BASE), params |-> "gfs_seamless", stage |-> "gfs"],
     [url |-> Str(OPEN_METEO_BASE), params |-> "ecmwf_ifs", stage |-> "ecmwf"]}

RadarCalls == {[url |-> Str(RAINVIEWER_API), params |-> "", stage |-> "radar"]}

\* a press whose fetch gave out; shown is what the handler displays
Pressed(action, out, shown) == [action |-> action, out |-> out, shown |-> shown]

\* a variant that stores whatever the fetch returned
GetForecast_stores_always ==
    \E a \in Coords : \E by \in AnswersTo(ForecastCalls(a)) :
        LET periods == Complete(Invocation("fetch_forecast", a), by)
        IN  /\ ui_last' = Pressed("Get Forecast", periods, "none")
            /\ session' = IF periods.kind = "raise" THEN session
                          ELSE [session EXCEPT !.forecast_data = periods.val]
            /\ UNCHANGED UiRest

\* if st.button("Get Forecast")
GetForecast ==
    \E a \in Coords : \E by \in AnswersTo(ForecastCalls(a)) :
        LET periods == Complete(Invocation("fetch_forecast", a), by)
        IN  /\ UNCHANGED UiRest
            /\ IF periods.kind = "raise"
               THEN /\ ui_last' = Pressed("Get Forecast", periods, "exception")
                    /\ session' = session
               ELSE IF periods.val = None
               THEN /\ ui_last' = Pressed("Get Forecast", periods, "error")
                    /\ session' = session
               ELSE /\ ui_last' = Pressed("Get Forecast", periods, "none")
                    /\ session' = [session EXCEPT !.forecast_data = periods.val]

\* if st.button("Compare Models")
CompareModels ==
    \E a \in Coords : \E by \in AnswersTo(ModelCalls) :
        LET model_data == Complete(Invocation("fetch_multi_model_comparison", a), by)
            gfs_data == DictGet(model_data.val, "gfs", None).val
            ecmwf_data == DictGet(model_data.val, "ecmwf", None).val
        IN  /\ UNCHANGED UiRest
            /\ IF ~Truthy(gfs_data) /\ ~Truthy(ecmwf_data)
               THEN /\ ui_last' = Pressed("Compare Models", model_data, "error")
                    /\ session' = session
               ELSE /\ ui_last' = Pressed("Compare Models", model_data, "none")
                    /\ session' = [session EXCEPT !.gfs_data = gfs_data,
                                                  !.ecmwf_data = ecmwf_data]

\* if st.button("Load Radar")
LoadRadar ==
    \E by \in AnswersTo(RadarCalls) :
        LET radar_data == Complete(Invocation("fetch_radar_timestamps", ""), by)
        IN  /\ UNCHANGED UiRest
            /\ IF ~Truthy(radar_data.val)
               THEN /\ ui_last' = Pressed("Load Radar", radar_data, "error")
                    /\ session' = session
               ELSE LET frames == get_all_radar_frames(radar_data.val)
                    IN  IF frames.kind = "raise"
                        THEN /\ ui_last' = Pressed("Load Radar", radar_data,
                                                   "exception")
                             /\ session' = session
                        ELSE /\ ui_last' = Pressed("Load Radar", radar_data, "none")
                             /\ session' = [session EXCEPT
                                               !.radar_frames = frames.val]

InitUI ==
    /\ session = NoSession
    /\ ui_last = NoHandler
    /\ FetchQuiet
    /\ RadarQuiet
    /\ ChartQuiet
    /\ MapQuiet

NextUI == GetForecast \/ CompareModels \/ LoadRadar

SpecUI == InitUI /\ [][NextUI]_vars

----------------------------------------------------------------------------
(* Properties of the fetch adapters *)

\* the response of task t's latest request
LastResp(t) == task[t].resps[Len(task[t].resps)]

\* what a request that ended as r hands to the adapter's caller
Payload(r) == IF r.kind = "ok" THEN r.body ELSE None

\* the points lookup of task t has yielded absent
PointsAbsent(t) ==
    /\ task[t].op = "fetch_forecast"
    /\ \/ task[t].stage = "points" /\ task[t].pc = "got" /\ task[t].ret = Return(None)
       \/ task[t].first = None

\* C1: when the points lookup of fetch_forecast yields absent, the forecast
\* request is never issued: exactly one request has gone out, the invocation
\* never enters its second stage, and its result is absent.
C1_NoSecondRequest ==
    \A t \in Tasks :
        PointsAbsent(t) =>
            /\ Len(task[t].reqs) = 1
            /\ task[t].stage = "points"
            /\ task[t].pc \in {"got", "done"}
            /\ task[t].pc = "done" => task[t].result = Return(None)

C1_Witness ==
    \E t \in Tasks :
        /\ PointsAbsent(t)
        /\ task[t].pc = "done"
        /\ LastResp(t) = Failed("http_error")

\* C2: fetch_multi_model_comparison returns a mapping with exactly the keys
\* "gfs" and "ecmwf"; each entry is the payload of that model's own request
\* when it succeeded and absent when it failed, whatever the other did.
C2_ModelsIndependent ==
    \A t \in Tasks :
        (task[t].op = "fetch_multi_model_comparison" /\ task[t].pc = "done") =>
            /\ task[t].result.kind = "return"
            /\ task[t].result.val.t = "dict"
            /\ DOMAIN task[t].result.val.v = {"gfs", "ecmwf"}
            /\ Len(task[t].resps) = 2
            /\ task[t].reqs[1].params = "gfs_seamless"
            /\ task[t].reqs[2].params = "ecmwf_ifs"
            /\ task[t].result.val.v.gfs = Payload(task[t].resps[1])
            /\ task[t].result.val.v.ecmwf = Payload(task[t].resps[2])

C2_Witness ==
    \E t \in Tasks :
        /\ task[t].op = "fetch_multi_model_comparison"
        /\ task[t].pc = "done"
        /\ task[t].resps[1] = Failed("transport_error")
        /\ task[t].resps[2].kind = "ok"
        /\ task[t].result.val.v.gfs = None
        /\ task[t].result.val.v.ecmwf = task[t].resps[2].body

\* C3: whichever way its request fails (transport error, timeout, non-2xx
\* status, undecodable body), each single-request adapter returns None and
\* raises nothing; on success it returns the decoded body.
C3_FailuresSwallowed ==
    \A t \in Tasks :
        task[t].pc = "got" =>
            /\ task[t].ret.kind = "return"
            /\ LastResp(t).kind # "ok" => task[t].ret = Return(None)
            /\ LastResp(t).kind = "ok" => task[t].ret = Return(LastResp(t).body)

C3_Witness ==
    \E t \in Tasks :
        /\ task[t].pc = "got"
        /\ task[t].stage = "alerts"
        /\ LastResp(t) = Failed("bad_body")
        /\ task[t].ret = Return(None)

\* body is a JSON object without body[k1][k2]
Lacks(body, k1, k2) ==
    /\ body.t = "dict"
    /\ \/ k1 \notin DOMAIN body.v
       \/ body.v[k1].t # "dict"
       \/ k2 \notin DOMAIN body.v[k1].v

\* C4: a points response that is a JSON object without properties.forecast,
\* or a forecast response that is a JSON object without properties.periods,
\* makes fetch_forecast return absent.
C4_MalformedIsAbsent ==
    \A t \in Tasks :
        (/\ task[t].op = "fetch_forecast"
         /\ task[t].pc = "done"
         /\ LastResp(t).kind = "ok"
         /\ \/ task[t].stage = "points" /\ Lacks(LastResp(t).body, "properties", "forecast")
            \/ task[t].stage = "forecast" /\ Lacks(LastResp(t).body, "properties", "periods"))
        => task[t].result = Return(None)
----------------------------------------------------------------------------
(* Properties of the radar normalizers *)

HasRadarObject(p) == "radar" \in DOMAIN p.v /\ p.v["radar"].t = "dict"

HasPastList(p) ==
    /\ HasRadarObject(p)
    /\ "past" \in DOMAIN p.v["radar"].v
    /\ p.v["radar"].v["past"].t = "list"

\* the entries of payload.radar.past
PastOf(p) == p.v["radar"].v["past"].v

HasKey(x, k) == x.t = "dict" /\ k \in DOMAIN x.v

\* the host the payload names, or the default host when it names none
HostText(p) == IF "host" \in DOMAIN p.v THEN p.v["host"].v ELSE DefaultHost

\* {host}{path}/256/{z}/{x}/{y}/2/1_1.png for an entry of past
UrlOf(p, frame) == Str(HostText(p) \o frame.v["path"].v \o "/256/{z}/{x}/{y}/2/1_1.png")

WellFormedRadar(p) ==
    /\ HasPastList(p)
    /\ \A i \in 1..Len(PastOf(p)) : HasKey(PastOf(p)[i], "path") /\ HasKey(PastOf(p)[i], "time")

\* C5: on any structural anomaly of the payload (an entry of past without
\* path or time, radar or past of the wrong type, radar missing)
\* get_all_radar_frames returns the empty sequence.
C5_AnomalyGivesEmpty ==
    (radar_call.fn = "get_all_radar_frames" /\ ~WellFormedRadar(payload))
        => radar_call.out = Return(EmptyList)

\* frame_index selects an entry of past
InRange(p, i) == (0 <= i /\ i < Len(PastOf(p))) \/ (i < 0 /\ 0 - i <= Len(PastOf(p)))

Selected(p, i) == IF i >= 0 THEN PastOf(p)[i + 1] ELSE PastOf(p)[Len(PastOf(p)) + i + 1]

\* C6: get_radar_tile_url never raises, and returns absent when
\* payload.radar.past is missing or empty, when frame_index is out of range,
\* and when the selected frame has no path.
C6_TileUrlNeverRaises ==
    radar_call.fn = "get_radar_tile_url" =>
        /\ radar_call.out.kind = "return"
        /\ (\/ ~HasPastList(payload)
            \/ ~InRange(payload, radar_call.idx)
            \/ ~HasKey(Selected(payload, radar_call.idx), "path"))
           => radar_call.out = Return(None)

EveryFrameHasPath(p) ==
    /\ HasPastList(p)
    /\ Len(PastOf(p)) > 0
    /\ \A i \in 1..Len(PastOf(p)) : HasKey(PastOf(p)[i], "path")

\* C7: when past is non-empty and every entry has a path,
\* get_radar_tile_url(payload, -1), and the call without an index, return
\* {host}{path}/256/{z}/{x}/{y}/2/1_1.png for the path of the last entry.
C7_LatestFrameUrl ==
    (/\ radar_call.fn = "get_radar_tile_url"
     /\ radar_call.idx = -1
     /\ EveryFrameHasPath(payload))
    => radar_call.out = Return(UrlOf(payload, PastOf(payload)[Len(PastOf(payload))]))

C7_Witness ==
    /\ radar_call.fn = "get_radar_tile_url"
    /\ ~radar_call.given
    /\ EveryFrameHasPath(payload)
    /\ Len(PastOf(payload)) >= 2
    /\ PastOf(payload)[1] # PastOf(payload)[Len(PastOf(payload))]
    /\ "host" \in DOMAIN payload.v
    /\ radar_call.out = Return(Str("https://cdn.example/v2/radar/c/256/{z}/{x}/{y}/2/1_1.png"))

\* C8: for a well-formed payload get_all_radar_frames returns one frame per
\* entry of past, in upstream order, the i-th with the i-th entry's time and
\* the URL built from its path; the empty past gives the empty sequence.
C8_FramesMapPast ==
    (radar_call.fn = "get_all_radar_frames" /\ WellFormedRadar(payload)) =>
        /\ radar_call.out.kind = "return"
        /\ radar_call.out.val.t = "list"
        /\ Len(radar_call.out.val.v) = Len(PastOf(payload))
        /\ \A i \in 1..Len(PastOf(payload)) :
              radar_call.out.val.v[i] =
                  Dict([time |-> PastOf(payload)[i].v["time"],
                        url |-> UrlOf(payload, PastOf(payload)[i])])

C8_Witness ==
    /\ radar_call.fn = "get_all_radar_frames"
    /\ WellFormedRadar(payload)
    /\ Len(PastOf(payload)) >= 2
    /\ PastOf(payload)[1] # PastOf(payload)[2]
    /\ Len(radar_call.out.val.v) = Len(PastOf(payload))
----------------------------------------------------------------------------
(* Properties of the chart builders *)

Builders ==
    {"create_temperature_comparison_chart", "create_precipitation_comparison_chart",
     "create_wind_comparison_chart", "create_multi_variable_dashboard"}

\* the variables whose traces a builder draws
Needed(fn) ==
    CASE fn = "create_temperature_comparison_chart" -> {"temperature_2m"}
      [] fn = "create_precipitation_comparison_chart" -> {"precipitation"}
      [] fn = "create_wind_comparison_chart" -> {"wind_speed_10m"}
      [] fn = "create_multi_variable_dashboard" ->
            {"temperature_2m", "precipitation", "wind_speed_10m", "relative_humidity_2m"}

\* the response has an hourly object with the timestamps
HasHourly(d) == HasKey(d, "hourly") /\ HasKey(d.v["hourly"], "time")

HasVar(d, var) == HasHourly(d) /\ var \in DOMAIN d.v["hourly"].v

\* C9: a response that has hourly but lacks a variable contributes no trace
\* for that variable and the builder still returns a chart: the chart holds
\* one trace per model and needed variable that the model's response has.
C9_TraceOnlyWithVariable ==
    (/\ chart_call.fn \in Builders
     /\ \A m \in {"gfs", "ecmwf"} : chart_in[m] = None \/ HasHourly(chart_in[m]))
    => /\ chart_call.out.kind = "return"
       /\ Len(chart_call.out.val.data) =
              Cardinality({mv \in {"gfs", "ecmwf"} \X Needed(chart_call.fn) :
                              HasVar(chart_in[mv[1]], mv[2])})

\* the response has every variable the builder needs
Present(d, fn) == \A var \in Needed(fn) : HasVar(d, var)

\* C10 as stated: with gfs absent and ecmwf present every builder's chart
\* has exactly one trace; with both absent it has none.
C10_OneTracePerChart ==
    chart_call.fn \in Builders =>
        /\ (chart_in.gfs = None /\ Present(chart_in.ecmwf, chart_call.fn)) =>
              /\ chart_call.out.kind = "return"
              /\ Len(chart_call.out.val.data) = 1
        /\ (chart_in.gfs = None /\ chart_in.ecmwf = None) =>
              /\ chart_call.out.kind = "return"
              /\ Len(chart_call.out.val.data) = 0

\* C10 amended: with gfs absent and ecmwf present, the temperature,
\* precipitation and wind charts hold exactly one trace, the ECMWF one with
\* ecmwf's timestamps and values; the dashboard holds exactly four, one
\* ECMWF trace in each of its panels.  With both absent every builder
\* returns a chart without traces.
C10_OneTracePerPanel ==
    chart_call.fn \in Builders =>
        /\ (chart_in.gfs = None /\ Present(chart_in.ecmwf, chart_call.fn)) =>
              /\ chart_call.out.kind = "return"
              /\ Len(chart_call.out.val.data) = Cardinality(Needed(chart_call.fn))
              /\ \A var \in Needed(chart_call.fn) :
                    \E i \in 1..Len(chart_call.out.val.data) :
                        LET tr == chart_call.out.val.data[i]
                        IN  /\ tr.x = chart_in.ecmwf.v["hourly"].v["time"]
                            /\ tr.y = chart_in.ecmwf.v["hourly"].v[var]
              /\ \A i \in 1..Len(chart_call.out.val.data) :
                    chart_call.out.val.data[i].name \in
                        {"ECMWF", "ECMWF Precip", "ECMWF Wind", "ECMWF Humidity"}
              /\ \A i, j \in 1..Len(chart_call.out.val.data) :
                    (i # j /\ chart_call.fn = "create_multi_variable_dashboard") =>
                        chart_call.out.val.data[i].cell # chart_call.out.val.data[j].cell
        /\ (chart_in.gfs = None /\ chart_in.ecmwf = None) =>
              /\ chart_call.out.kind = "return"
              /\ chart_call.out.val.data = <<>>

C10_Witness ==
    /\ chart_call.fn = "create_multi_variable_dashboard"
    /\ chart_in.gfs = None
    /\ Present(chart_in.ecmwf, chart_call.fn)
    /\ Len(chart_call.out.val.data) = 4
----------------------------------------------------------------------------
(* Further properties of the fetch adapters *)

\* d has an hourly object whose time and every requested variable are
\* sequences of one length
Aligned(d, variables) ==
    /\ HasHourly(d)
    /\ \A var \in variables :
          /\ var \in DOMAIN d.v["hourly"].v
          /\ d.v["hourly"].v[var].t = "list"
          /\ Len(d.v["hourly"].v[var].v) = Len(d.v["hourly"].v["time"].v)

\* C11: a payload with an hourly object that fetch_model_forecast returns
\* (rather than absent) has hourly.time as long as the value sequence of
\* every requested variable.
C11_AlignedOrAbsent ==
    \A t \in Tasks :
        (/\ task[t].stage \in ModelStages
         /\ task[t].pc = "got"
         /\ task[t].ret.kind = "return"
         /\ task[t].ret.val # None
         /\ HasHourly(task[t].ret.val))
        => Aligned(task[t].ret.val, DefaultVariables)

\* C12: fetch_alerts issues one GET; it returns absent exactly when the
\* request failed or the body has no features field, and otherwise the
\* features sequence as received (the empty one included, which is not
\* absent).
C12_AlertsAsReceived ==
    \A t \in Tasks :
        (task[t].op = "fetch_alerts" /\ task[t].pc = "done") =>
            /\ Len(task[t].reqs) = 1
            /\ task[t].reqs[1].url.v \in
                  {NWS_API_BASE \o "/alerts/active/area/" \o st : st \in States}
            /\ task[t].result.kind = "return"
            /\ (task[t].result.val = None) <=>
                  (LastResp(t).kind # "ok" \/ ~HasKey(LastResp(t).body, "features"))
            /\ (LastResp(t).kind = "ok" /\ HasKey(LastResp(t).body, "features")) =>
                  task[t].result.val = LastResp(t).body.v["features"]

C12_Witness ==
    \E t \in Tasks :
        /\ task[t].op = "fetch_alerts"
        /\ task[t].pc = "done"
        /\ LastResp(t) = Ok(Dict([features |-> EmptyList]))
        /\ task[t].result = Return(EmptyList)

----------------------------------------------------------------------------
(* Properties of the alerts map *)

\* the palette of five severities; anything else is grey
Palette(severity) ==
    CASE severity = Str("Extreme") -> "#FF0000"
      [] severity = Str("Severe") -> "#FF6600"
      [] severity = Str("Moderate") -> "#FFCC00"
      [] severity = Str("Minor") -> "#00FF00"
      [] OTHER -> "#808080"

\* the severity an alert carries; None when it carries none
SeverityOf(alert) ==
    IF HasKey(alert, "properties") /\ HasKey(alert.v["properties"], "severity")
    THEN alert.v["properties"].v["severity"]
    ELSE None

HasPolygon(alert) ==
    /\ HasKey(alert, "geometry")
    /\ HasKey(alert.v["geometry"], "type")
    /\ alert.v["geometry"].v["type"] \in {Str("Polygon"), Str("MultiPolygon")}

\* the properties member is present and is not an object
BadProperties(alert) ==
    HasKey(alert, "properties") /\ alert.v["properties"].t # "dict"

\* C13: a returned alerts map holds one element per alert, in input order: a
\* shape in the palette colour of the alert's severity (grey when the severity
\* is missing or unrecognized) for a Polygon or MultiPolygon geometry, and a
\* marker at the map centre for any other alert; the call raises only when
\* some alert's properties member is not an object
C13_OneElementPerAlert ==
    map_call.fn = "create_alerts_map" =>
        LET alerts == map_in.alerts.v
            out == map_call.out
        IN  /\ out.kind = "raise" => \E i \in 1..Len(alerts) : BadProperties(alerts[i])
            /\ out.kind = "return" =>
                /\ Len(out.val.children) = Len(alerts)
                /\ \A i \in 1..Len(alerts) :
                      LET element == out.val.children[i]
                      IN  IF HasPolygon(alerts[i])
                          THEN /\ element.kind = "GeoJson"
                               /\ element.data = alerts[i].v["geometry"]
                               /\ element.color = Palette(SeverityOf(alerts[i]))
                               /\ element.fillColor = element.color
                          ELSE /\ element.kind = "Marker"
                               /\ element.location = out.val.location

\* two polygon alerts, Extreme then Minor, for CA: two shapes, red then green
C13_Witness ==
    /\ map_call.fn = "create_alerts_map"
    /\ map_in.state_code = "CA"
    /\ Len(map_in.alerts.v) = 2
    /\ \A i \in 1..2 : HasPolygon(map_in.alerts.v[i])
    /\ SeverityOf(map_in.alerts.v[1]) = Str("Extreme")
    /\ SeverityOf(map_in.alerts.v[2]) = Str("Minor")
    /\ map_call.out.kind = "return"
    /\ Len(map_call.out.val.children) = 2
    /\ map_call.out.val.children[1].kind = "GeoJson"
    /\ map_call.out.val.children[1].color = "#FF0000"
    /\ map_call.out.val.children[2].kind = "GeoJson"
    /\ map_call.out.val.children[2].color = "#00FF00"

\* the reply of the fixed services to a request
Reply(url, params) ==
    IF url.t = "str" THEN upstream.by[Endpoint(url, params)]
    ELSE Failed("invalid_url")

\* the result of an invocation that runs alone, from state s at a call, each
\* request carried out in one piece
RECURSIVE Alone(_)
Alone(s) ==
    LET r == Continue([s EXCEPT !.ret = Adapter(s.stage, Reply(s.url, s.params))])
    IN  IF r.pc = "done" THEN r.result ELSE Alone(r)

\* C14: with fixed upstream answers, whatever the interleaving with the other
\* invocation, each adapter call returns what it returns for its own
\* endpoint's answer and each invocation ends with the result it has when it
\* runs alone
C14_SameAsSequential ==
    \A t \in Tasks :
        /\ task[t].pc = "got" =>
               task[t].ret = Adapter(task[t].stage,
                                     Reply(task[t].url, task[t].params))
        /\ task[t].pc = "done" =>
               task[t].result = Alone(Invocation(task[t].op, task[t].arg))

\* a comparison and a radar fetch in flight together: the ECMWF request has
\* timed out after GFS was answered, while the radar payload has come back
C14_Witness ==
    /\ task["t1"].op = "fetch_multi_model_comparison"
    /\ task["t1"].stage = "ecmwf"
    /\ task["t1"].pc = "got"
    /\ task["t1"].first # None
    /\ task["t1"].ret = Return(None)
    /\ task["t2"].op = "fetch_radar_timestamps"
    /\ task["t2"].pc = "got"
    /\ task["t2"].ret.val # None

\* the clients of task t that are open
OpenClients(t) == {i \in DOMAIN task[t].clients : task[t].clients[i] = "open"}

\* C15: a task holds at most one open client, and only between the opening
\* of a request's scope and the adapter's return; once the adapter has
\* returned, on whatever path, every client the task opened is closed; each
\* request went out on the client opened for it, and no two requests of a
\* task used the same client
C15_ClientsReleased ==
    \A t \in Tasks :
        /\ Cardinality(OpenClients(t)) <= 1
        /\ task[t].pc \in {"idle", "call", "done"} => OpenClients(t) = {}
        /\ task[t].pc \in {"opened", "sent", "got"} =>
               OpenClients(t) = {Len(task[t].clients)}
        /\ \A i \in DOMAIN task[t].reqs : task[t].reqs[i].client = i
        /\ Len(task[t].reqs) <= Len(task[t].clients)

\* fetch_forecast has returned after its second request timed out: both of
\* its clients are closed
C15_Witness ==
    \E t \in Tasks :
        /\ task[t].op = "fetch_forecast"
        /\ task[t].pc = "done"
        /\ Len(task[t].clients) = 2
        /\ OpenClients(t) = {}
        /\ LastResp(t) = Failed("timeout")
        /\ task[t].result = Return(None)

\* the request for the Open-Meteo forecast of one model
IsModelRequest(r, model) == r.url = Str(OPEN_METEO_BASE) /\ r.params = model

\* C16: an invocation never repeats a request and never exceeds its number of
\* requests: one for fetch_model_forecast, fetch_radar_timestamps and
\* fetch_alerts; two for fetch_multi_model_comparison, GFS then ECMWF, the
\* second whatever became of the first; at most two for fetch_forecast, the
\* points lookup and then the URL the points response names
C16_NoRetry ==
    \A t \in Tasks :
        LET s == task[t]
            n == Len(s.reqs)
        IN  /\ \A i, j \in 1..n :
                   i # j => <<s.reqs[i].url, s.reqs[i].params>>
                                # <<s.reqs[j].url, s.reqs[j].params>>
            /\ n <= Len(s.resps) + 1
            /\ s.op \in {"fetch_model_forecast", "fetch_radar_timestamps",
                         "fetch_alerts"} =>
                   /\ n <= 1
                   /\ s.pc = "done" => n = 1
            /\ s.op = "fetch_multi_model_comparison" =>
                   /\ n <= 2
                   /\ n >= 1 => IsModelRequest(s.reqs[1], "gfs_seamless")
                   /\ n = 2 => IsModelRequest(s.reqs[2], "ecmwf_ifs")
                   /\ s.pc = "done" => n = 2
            /\ s.op = "fetch_forecast" =>
                   /\ n <= 2
                   /\ n >= 1 => s.reqs[1].url = Str(NWS_API_BASE \o "/points/" \o s.arg)
                   /\ n = 2 =>
                          /\ s.resps[1].kind = "ok"
                          /\ s.reqs[2].url
                                 = s.resps[1].body.v["properties"].v["forecast"]
                   /\ s.pc = "done" => n >= 1

\* the comparison has ended with two requests made, the GFS one having
\* failed
C16_Witness ==
    \E t \in Tasks :
        /\ task[t].op = "fetch_multi_model_comparison"
        /\ task[t].pc = "done"
        /\ Len(task[t].reqs) = 2
        /\ task[t].resps[1].kind # "ok"
        /\ task[t].resps[2].kind = "ok"

----------------------------------------------------------------------------
(* Further properties of the radar normalizers *)

\* the url member of entry i of what get_all_radar_frames returns for p
BulkUrl(p, i) ==
    LET all == get_all_radar_frames(p)
    IN  IF all.kind = "raise" THEN all
        ELSE LET frame == GetIndex(all.val, i)
             IN  IF frame.kind = "raise" THEN frame
                 ELSE GetItem(frame.val, "url")

\* C17: for a payload whose frames all carry a path, with or without a time
\* and with or without a host, and an index in range of radar.past,
\* get_radar_tile_url(payload, i) is get_all_radar_frames(payload)[i]["url"]
C17_NormalizersAgree ==
    (/\ radar_call.fn = "get_radar_tile_url"
     /\ EveryFrameHasPath(payload)
     /\ InRange(payload, radar_call.idx))
    => radar_call.out = BulkUrl(payload, radar_call.idx)

----------------------------------------------------------------------------
(* Properties of the button handlers *)

\* the stored pair of model forecasts
StoredPair(s) == <<s.gfs_data, s.ecmwf_data>>

\* the press that has just been handled was of this button and its fetch
\* returned
Returned(action) == ui_last'.action = action /\ ui_last'.out.kind = "return"

\* C18: over any sequence of presses, forecast_data changes only on a Get
\* Forecast whose fetch returned non-absent, radar_frames only on a Load
\* Radar whose payload was non-empty, and the stored pair of model forecasts
\* only on a Compare Models that got at least one model; once stored, the
\* pair is never both absent
C18_FailedFetchKeepsSession ==
    /\ [][/\ session'.forecast_data # session.forecast_data =>
                 /\ Returned("Get Forecast")
                 /\ ui_last'.out.val # None
                 /\ session'.forecast_data = ui_last'.out.val
          /\ session'.radar_frames # session.radar_frames =>
                 /\ Returned("Load Radar")
                 /\ ui_last'.out.val \notin {None, EmptyDict}
          /\ StoredPair(session') # StoredPair(session) =>
                 /\ Returned("Compare Models")
                 /\ \/ ui_last'.out.val.v["gfs"] # None
                    \/ ui_last'.out.val.v["ecmwf"] # None
                 /\ session'.gfs_data = ui_last'.out.val.v["gfs"]
                 /\ session'.ecmwf_data = ui_last'.out.val.v["ecmwf"]]_vars
    /\ [](/\ session.gfs_data = Unset <=> session.ecmwf_data = Unset
          /\ StoredPair(session) # <<None, None>>)

\* every result is stored, and then each of the three fetches fails: the
\* stored results are still there
C18_Witness ==
    /\ session.forecast_data = List(<<Period1>>)
    /\ session.gfs_data = None
    /\ session.ecmwf_data # None
    /\ session.radar_frames \notin {Unset, EmptyList}
    /\ ui_last.action = "Get Forecast"
    /\ ui_last.out = Return(None)
    /\ ui_last.shown = "error"

====
